---- MODULE Spec2Model ----
(***************************************************************************)
(* coraserver (src/main.go): a campus-timetable query service with a       *)
(* Microsoft OAuth login flow.  The process loads its OAuth configuration  *)
(* in init(), binds a socket in main() and then serves five routes, one    *)
(* goroutine per connection.                                               *)
(*                                                                         *)
(* Text (query parameters, configuration values, URLs, payloads, response  *)
(* bodies) is a sequence of characters, so that parsing and encoding are   *)
(* computed.  A printable ASCII character, a tab, a line feed and a        *)
(* carriage return are the one-character string; any other byte or code    *)
(* point is a string that names it ("0x01", "0xff", "U+2028"); a character *)
(* drawn from charset by rand.Intn is named by the draw that yields it.    *)
(* Header values that are only ever compared are plain strings.            *)
(*                                                                         *)
(* A handler takes one step per access to what goroutines share or to the  *)
(* outside: the clock, math/rand's global source, the token endpoint, the  *)
(* Graph API, the timetable gateway.  A connection carries one request.    *)
(* Spec runs every handler; SpecLogin serves requests for /oauth/login     *)
(* only.                                                                   *)
(***************************************************************************)
EXTENDS Integers, Sequences, FiniteSets, TLC

(* ------------------------------ bounds -------------------------------- *)

\* Connections served, each carrying one request, on a goroutine of its own.
NumConns == 1
\* Longest slot query parameter drawn.
MaxSlotLen == 2
\* Largest reading of the wall clock drawn.
MaxClock == 1
\* Context switches allowed away from a goroutine that has seeded the
\* global source in generateRandomString and has draws left to make.
MaxPreempt == 1
\* Connections served where only /oauth/login is requested.
NumLogins == 2

(* -------------------------- program constants ------------------------- *)

StatusOK == 200
StatusFound == 302
StatusBadRequest == 400
StatusForbidden == 403
StatusInternalServerError == 500
\* The length oauthLoginHandler asks generateRandomString for.
StateLen == 16

charset ==
  <<"a", "b", "c", "d", "e", "f", "g", "h", "i", "j", "k", "l", "m", "n", "o",
    "p", "q", "r", "s", "t", "u", "v", "w", "x", "y", "z", "A", "B", "C", "D",
    "E", "F", "G", "H", "I", "J", "K", "L", "M", "N", "O", "P", "Q", "R", "S",
    "T", "U", "V", "W", "X", "Y", "Z", "0", "1", "2", "3", "4", "5", "6", "7",
    "8", "9">>

CtJSON == "application/json"
CtPlain == "text/plain; charset=utf-8"
CtHTML == "text/html; charset=utf-8"

InvalidSlotMsg ==
  <<"I", "n", "v", "a", "l", "i", "d", " ", "s", "l", "o", "t", " ", "v", "a",
    "l", "u", "e">>
UnexpectedStatusPrefix ==
  <<"u", "n", "e", "x", "p", "e", "c", "t", "e", "d", " ", "r", "e", "s", "p",
    "o", "n", "s", "e", " ", "s", "t", "a", "t", "u", "s", ":", " ">>
GraphBase ==
  <<"h", "t", "t", "p", "s", ":", "/", "/", "g", "r", "a", "p", "h", ".", "m",
    "i", "c", "r", "o", "s", "o", "f", "t", ".", "c", "o", "m", "/", "v", "1",
    ".", "0", "/">>
BearerPrefix == <<"B", "e", "a", "r", "e", "r", " ">>
EndpointMe == <<"m", "e">>
EndpointOrg == <<"o", "r", "g", "a", "n", "i", "z", "a", "t", "i", "o", "n">>
Newline == <<"\n">>

(* ------------------------------ strconv ------------------------------- *)

Digits == {"0", "1", "2", "3", "4", "5", "6", "7", "8", "9"}

DigitVal(ch) ==
  CASE ch = "0" -> 0 [] ch = "1" -> 1 [] ch = "2" -> 2 [] ch = "3" -> 3
    [] ch = "4" -> 4 [] ch = "5" -> 5 [] ch = "6" -> 6 [] ch = "7" -> 7
    [] ch = "8" -> 8 [] ch = "9" -> 9

DigitChar(d) ==
  CASE d = 0 -> "0" [] d = 1 -> "1" [] d = 2 -> "2" [] d = 3 -> "3"
    [] d = 4 -> "4" [] d = 5 -> "5" [] d = 6 -> "6" [] d = 7 -> "7"
    [] d = 8 -> "8" [] d = 9 -> "9"

\* The digit loop of strconv.Atoi: n = n*10 + digit, a syntax error at the
\* first byte that is no digit.
RECURSIVE AtoiDigits(_, _)
AtoiDigits(s, n) ==
  IF s = <<>> THEN [err |-> FALSE, val |-> n]
  ELSE IF Head(s) \notin Digits THEN [err |-> TRUE, val |-> 0]
  ELSE AtoiDigits(Tail(s), n * 10 + DigitVal(Head(s)))

\* A plausible slip: parsing as C's atoi does, which reads the leading
\* digits and reports no error.
RECURSIVE LeadingDigits(_, _)
LeadingDigits(s, n) ==
  IF s = <<>> \/ Head(s) \notin Digits THEN n
  ELSE LeadingDigits(Tail(s), n * 10 + DigitVal(Head(s)))
AtoiLenient(s) == [err |-> FALSE, val |-> LeadingDigits(s, 0)]

\* strconv.Atoi on a string short enough for its fast path (fewer than 19
\* bytes): an optional sign, then at least one digit, and only digits.
Atoi(s) ==
  IF s = <<>> THEN [err |-> TRUE, val |-> 0]
  ELSE IF Head(s) \in {"-", "+"}
    THEN IF Tail(s) = <<>> THEN [err |-> TRUE, val |-> 0]
         ELSE LET r == AtoiDigits(Tail(s), 0)
              IN  IF r.err THEN r
                  ELSE [err |-> FALSE,
                        val |-> IF Head(s) = "-" THEN 0 - r.val ELSE r.val]
    ELSE AtoiDigits(s, 0)

\* strconv.Itoa, as json.Marshal writes an int.
RECURSIVE ItoaNat(_)
ItoaNat(n) ==
  IF n < 10 THEN <<DigitChar(n)>>
  ELSE ItoaNat(n \div 10) \o <<DigitChar(n % 10)>>

Itoa(n) == IF n < 0 THEN <<"-">> \o ItoaNat(0 - n) ELSE ItoaNat(n)

(* -------------------------------- text -------------------------------- *)

\* The concatenation of the texts parts[lo] .. parts[hi].
RECURSIVE ConcatRange(_, _, _)
ConcatRange(parts, lo, hi) ==
  IF lo > hi THEN <<>>
  ELSE IF lo = hi THEN parts[lo]
  ELSE LET m == (lo + hi) \div 2
       IN  ConcatRange(parts, lo, m) \o ConcatRange(parts, m + 1, hi)

\* The concatenation of a sequence of texts.
Concat(parts) == ConcatRange(parts, 1, Len(parts))

\* The text s from position from on, the characters at the positions hits
\* replaced by what esc gives for them.
RECURSIVE EscapeFrom(_, _, _, _)
EscapeFrom(s, from, hits, esc) ==
  LET rest == {i \in hits : i >= from}
  IN  IF rest = {} THEN SubSeq(s, from, Len(s))
      ELSE LET i == CHOOSE k \in rest : \A j \in rest : k <= j
           IN  SubSeq(s, from, i - 1) \o esc[s[i]] \o EscapeFrom(s, i + 1, hits, esc)

\* An escaping of text: every character of s that is in special is replaced
\* by what esc gives for it, every other character is kept.
Escape(s, special, esc) ==
  EscapeFrom(s, 1, {i \in 1..Len(s) : s[i] \in special}, esc)

\* strings.Join.
Join(parts, sep) ==
  Concat([i \in 1..Len(parts) |-> IF i = 1 THEN parts[i] ELSE sep \o parts[i]])

(* ---------------------------- encoding/json --------------------------- *)

\* A Go slice: nil, or a (possibly empty) list of elements.
NilSlice == [isNil |-> TRUE, elems |-> <<>>]
Slice(xs) == [isNil |-> FALSE, elems |-> xs]

\* The control bytes the model names, with the hex digits json.Marshal
\* writes for them.  (Backspace and form feed are not among the model's
\* characters: releases of encoding/json differ in how they write them.)
ControlHex ==
  ("0x00" :> <<"0", "0">>) @@ ("0x01" :> <<"0", "1">>)
    @@ ("0x0b" :> <<"0", "b">>) @@ ("0x1b" :> <<"1", "b">>)
    @@ ("0x1f" :> <<"1", "f">>)
\* Bytes that are not valid UTF-8.
InvalidUTF8 == {"0x80", "0xff"}

\* json.Marshal's escaping of one character of a string (HTML escaping is
\* on): the quote and the backslash, line feed, carriage return and tab by
\* their short forms, any other byte below 0x20 and the characters <, >, &
\* as \u00XX, a byte that is not valid UTF-8 as \ufffd, U+2028 and U+2029
\* as \u2028 and \u2029; anything else is written as it is.
EscapeChar(ch) ==
  CASE ch = "\"" -> <<"\\", "\"">>
    [] ch = "\\" -> <<"\\", "\\">>
    [] ch = "\n" -> <<"\\", "n">>
    [] ch = "\r" -> <<"\\", "r">>
    [] ch = "\t" -> <<"\\", "t">>
    [] ch \in DOMAIN ControlHex -> <<"\\", "u", "0", "0">> \o ControlHex[ch]
    [] ch = "&" -> <<"\\", "u", "0", "0", "2", "6">>
    [] ch = "<" -> <<"\\", "u", "0", "0", "3", "c">>
    [] ch = ">" -> <<"\\", "u", "0", "0", "3", "e">>
    [] ch \in InvalidUTF8 -> <<"\\", "u", "f", "f", "f", "d">>
    [] ch = "U+2028" -> <<"\\", "u", "2", "0", "2", "8">>
    [] ch = "U+2029" -> <<"\\", "u", "2", "0", "2", "9">>
    [] OTHER -> <<ch>>

\* The characters json.Marshal does not write as they are.
JSONSpecial ==
  {"\"", "\\", "\n", "\r", "\t", "&", "<", ">", "U+2028", "U+2029"}
    \cup DOMAIN ControlHex \cup InvalidUTF8
JSONEscapes == [ch \in JSONSpecial |-> EscapeChar(ch)]

EscapeString(s) == Escape(s, JSONSpecial, JSONEscapes)

QuoteString(s) == <<"\"">> \o EscapeString(s) \o <<"\"">>

JoinComma(parts) == Join(parts, <<",">>)

JSONNull == <<"n", "u", "l", "l">>

\* json.Marshal of a []string: a nil slice encodes as null, any other as an
\* array.  It returns no error for a slice of strings.
MarshalStrings(sl) ==
  [err |-> FALSE, msg |-> <<>>,
   bytes |-> IF sl.isNil THEN JSONNull
             ELSE <<"[">>
                    \o JoinComma([i \in 1..Len(sl.elems) |-> QuoteString(sl.elems[i])])
                    \o <<"]">>]

\* json.Marshal of a []int.
MarshalInts(sl) ==
  [err |-> FALSE, msg |-> <<>>,
   bytes |-> IF sl.isNil THEN JSONNull
             ELSE <<"[">>
                    \o JoinComma([i \in 1..Len(sl.elems) |-> Itoa(sl.elems[i])])
                    \o <<"]">>]

(* ------------------------------- net/url ------------------------------ *)

\* The bytes url.QueryEscape writes as %XX, with their hex digits, one pair
\* per byte.  Every other character of the model's text is unreserved (a
\* letter, a digit, - _ . ~) or the space.
HexTable ==
  ("!" :> <<<<"2", "1">>>>) @@ ("\"" :> <<<<"2", "2">>>>)
    @@ ("#" :> <<<<"2", "3">>>>) @@ ("$" :> <<<<"2", "4">>>>)
    @@ ("%" :> <<<<"2", "5">>>>) @@ ("&" :> <<<<"2", "6">>>>)
    @@ ("'" :> <<<<"2", "7">>>>) @@ ("(" :> <<<<"2", "8">>>>)
    @@ (")" :> <<<<"2", "9">>>>) @@ ("*" :> <<<<"2", "A">>>>)
    @@ ("+" :> <<<<"2", "B">>>>) @@ ("," :> <<<<"2", "C">>>>)
    @@ ("/" :> <<<<"2", "F">>>>) @@ (":" :> <<<<"3", "A">>>>)
    @@ (";" :> <<<<"3", "B">>>>) @@ ("<" :> <<<<"3", "C">>>>)
    @@ ("=" :> <<<<"3", "D">>>>) @@ (">" :> <<<<"3", "E">>>>)
    @@ ("?" :> <<<<"3", "F">>>>) @@ ("@" :> <<<<"4", "0">>>>)
    @@ ("[" :> <<<<"5", "B">>>>) @@ ("\\" :> <<<<"5", "C">>>>)
    @@ ("]" :> <<<<"5", "D">>>>) @@ ("^" :> <<<<"5", "E">>>>)
    @@ ("{" :> <<<<"7", "B">>>>)
    @@ ("|" :> <<<<"7", "C">>>>) @@ ("}" :> <<<<"7", "D">>>>)
    @@ ("\t" :> <<<<"0", "9">>>>) @@ ("\n" :> <<<<"0", "A">>>>)
    @@ ("\r" :> <<<<"0", "D">>>>) @@ ("0x00" :> <<<<"0", "0">>>>)
    @@ ("0x01" :> <<<<"0", "1">>>>) @@ ("0x0b" :> <<<<"0", "B">>>>)
    @@ ("0x1b" :> <<<<"1", "B">>>>) @@ ("0x1f" :> <<<<"1", "F">>>>)
    @@ ("0x80" :> <<<<"8", "0">>>>) @@ ("0xff" :> <<<<"F", "F">>>>)
    @@ ("U+2028" :> <<<<"E", "2">>, <<"8", "0">>, <<"A", "8">>>>)
    @@ ("U+2029" :> <<<<"E", "2">>, <<"8", "0">>, <<"A", "9">>>>)

PercentEncode(pairs) == Concat([i \in 1..Len(pairs) |-> <<"%">> \o pairs[i]])

\* url.QueryEscape of one character: the space as +, a byte that is not
\* unreserved as %XX.
QueryEscapeChar(ch) ==
  IF ch = " " THEN <<"+">>
  ELSE IF ch \in DOMAIN HexTable THEN PercentEncode(HexTable[ch])
  ELSE <<ch>>

\* The characters url.QueryEscape does not write as they are.
QuerySpecial == {" "} \cup DOMAIN HexTable
QueryEscapes == [ch \in QuerySpecial |-> QueryEscapeChar(ch)]

QueryEscape(s) == Escape(s, QuerySpecial, QueryEscapes)

\* One key=value pair as url.Values.Encode writes it: both escaped.
EncodePair(key, value) == QueryEscape(key) \o <<"=">> \o QueryEscape(value)

(* ------------------------------ net/http ------------------------------ *)

\* The request methods drawn.  The router dispatches on the path alone.
Methods == {"GET", "HEAD", "POST"}

\* The header map w.Header() returns, with nothing set.  ctype "" and
\* location <<>>: the key is not in the map.
NoHeader == [ctype |-> "", location |-> <<>>]

\* The ResponseWriter of a request of the given method, on which nothing
\* was set or written yet.  header: the map w.Header() returns, which the
\* handler may change at any time.  status 0: WriteHeader was not called
\* yet.  ctype and location: the header sent, a copy of the map taken by
\* the first WriteHeader.  hdrCalls counts the calls of WriteHeader,
\* explicit or implied by a first Write.  wrote: the handler has written at
\* least one byte that the status allows; body: the bytes sent to the
\* client.
NewResp(method) ==
  [method |-> method, header |-> NoHeader, status |-> 0, ctype |-> "",
   location |-> <<>>, body |-> <<>>, wrote |-> FALSE, hdrCalls |-> 0]

\* w.Header().Set("Content-Type", ct): changes the map; what is sent does
\* not change once WriteHeader was called.
HeaderSet(resp, ct) == [resp EXCEPT !.header.ctype = ct]

\* w.Header().Set("Location", url).
HeaderSetLocation(resp, url) == [resp EXCEPT !.header.location = url]

\* w.WriteHeader(code), for a final status code: the first call fixes the
\* status and the header sent, a copy of the map as it is then.
WriteHeader(resp, code) ==
  IF resp.status # 0 THEN [resp EXCEPT !.hdrCalls = @ + 1]
  ELSE [resp EXCEPT !.status = code, !.ctype = resp.header.ctype,
                    !.location = resp.header.location, !.hdrCalls = @ + 1]

\* Statuses whose response carries no body.
bodyAllowedForStatus(status) ==
  ~(status \in 100..199 \/ status = 204 \/ status = 304)

\* w.Write(bytes): a Write without a WriteHeader before it implies 200.
\* The bytes are refused if the status allows no body; else they are
\* buffered, and sent unless the request is a HEAD, whose bytes the server
\* discards when it flushes the buffer.
Write(resp, bytes) ==
  LET r0 == IF resp.status # 0 THEN resp ELSE WriteHeader(resp, StatusOK)
  IN  IF ~bodyAllowedForStatus(r0.status) THEN r0
      ELSE [r0 EXCEPT !.wrote = @ \/ bytes # <<>>,
                      !.body = IF r0.method = "HEAD" THEN @ ELSE @ \o bytes]

\* The Content-Type the server sends for a response shorter than its write
\* buffer, once the handler has returned: none with status 304, from whose
\* header net/http removes it; else the one the handler had set when the
\* header was fixed; none if it had set none and wrote no byte; else the one net/http sniffs from the bytes
\* written (those of a HEAD response included, which are sniffed before
\* they are discarded), which the model does not compute and denotes by
\* Sniffed.  (No path of main.go writes a body without a Content-Type set
\* before, and none answers 304.)
Sniffed == "http.DetectContentType(body)"
ContentType(resp) ==
  IF resp.status = 304 THEN ""
  ELSE IF resp.ctype # "" THEN resp.ctype
  ELSE IF ~resp.wrote THEN ""
  ELSE Sniffed

\* A plausible slip: an error helper that labels its text application/json.
HttpErrorJSON(resp, msg, code) ==
  Write(WriteHeader(HeaderSet(resp, CtJSON), code), msg \o Newline)

\* http.Error: text/plain, the status, then the message and a newline
\* (fmt.Fprintln).
HttpError(resp, msg, code) ==
  Write(WriteHeader(HeaderSet(resp, CtPlain), code), msg \o Newline)

\* http.StatusText for the statuses main.go uses.
StatusText(code) ==
  CASE code = StatusOK -> <<"O", "K">>
    [] code = StatusFound -> <<"F", "o", "u", "n", "d">>
    [] code = StatusBadRequest ->
         <<"B", "a", "d", " ", "R", "e", "q", "u", "e", "s", "t">>
    [] code = StatusForbidden -> <<"F", "o", "r", "b", "i", "d", "d", "e", "n">>
    [] code = StatusInternalServerError ->
         <<"I", "n", "t", "e", "r", "n", "a", "l", " ", "S", "e", "r", "v", "e",
           "r", " ", "E", "r", "r", "o", "r">>

\* net/http's htmlEscape.
htmlEscapeChar(ch) ==
  CASE ch = "&" -> <<"&", "a", "m", "p", ";">>
    [] ch = "<" -> <<"&", "l", "t", ";">>
    [] ch = ">" -> <<"&", "g", "t", ";">>
    [] ch = "\"" -> <<"&", "#", "3", "4", ";">>
    [] ch = "'" -> <<"&", "#", "3", "9", ";">>
    [] OTHER -> <<ch>>

HTMLSpecial == {"&", "<", ">", "\"", "'"}
HTMLEscapes == [ch \in HTMLSpecial |-> htmlEscapeChar(ch)]

htmlEscape(s) == Escape(s, HTMLSpecial, HTMLEscapes)

\* http.Redirect to an absolute URL of ASCII characters: the Location; if
\* the header map holds no Content-Type yet (whether or not the header was
\* already sent), text/html for a GET or a HEAD; the status; and, if the
\* map held no Content-Type, for a GET a short HTML note as the body
\* (fmt.Fprintln).
HttpRedirect(resp, url, code) ==
  LET hadCT == resp.header.ctype # ""
      r0 == HeaderSetLocation(resp, url)
      r1 == IF ~hadCT /\ resp.method \in {"GET", "HEAD"}
              THEN HeaderSet(r0, CtHTML) ELSE r0
      r2 == WriteHeader(r1, code)
      note == <<"<", "a", " ", "h", "r", "e", "f", "=", "\"">> \o htmlEscape(url)
                \o <<"\"", ">">> \o StatusText(code)
                \o <<"<", "/", "a", ">", ".", "\n">>
  IN  IF ~hadCT /\ resp.method = "GET" THEN Write(r2, note \o Newline) ELSE r2

(* ------------------------------ math/rand ----------------------------- *)

\* math/rand's global source before rand.Seed is called.  Nothing draws
\* from it in this state: generateRandomString seeds before it draws.
Unseeded == [seeded |-> FALSE, seed |-> 0, n |-> 0]

\* The reduction of a seed by the source: modulo 2^31 - 1, zero replaced.
SeedWord(seed) ==
  LET x == seed % 2147483647
  IN  IF x = 0 THEN 89482311 ELSE x

\* rand.Seed(seed): the state of the source is from now on a function of
\* the reduced seed and of the number n of outputs taken since.  (So it is
\* in every Go release before 1.24, and in later ones unless the setting
\* randseednop makes rand.Seed do nothing.)
Seed(seed) == [seeded |-> TRUE, seed |-> SeedWord(seed), n |-> 0]

\* The source after one more output was taken from it.
Advance(src) == [src EXCEPT !.n = @ + 1]

\* rand.Intn(n) on source src: the value is a function of the state of the
\* source, which the model does not compute and names by that state.
\* (Intn takes one output, and another only if the first is one of the few
\* values above the largest multiple of n, which is taken not to happen.)
Intn(src, n) ==
  "Intn(" \o ToString(n) \o ")@"
    \o (IF src.seeded THEN ToString(src.seed) ELSE "unseeded")
    \o "+" \o ToString(src.n)

(* --------------------------- requestGraphAPI -------------------------- *)

\* What the Graph API may answer to one GET: a transport failure, a status
\* other than 200, a 200 whose body cannot be read, or a 200 with a body.
GraphReply(kind, status, body) == [kind |-> kind, status |-> status, body |-> body]

Payload1 == <<"{", "\"", "a", "\"", ":", "1", "}">>
Payload2 == <<"{", "}">>
Status401 ==
  <<"4", "0", "1", " ", "U", "n", "a", "u", "t", "h", "o", "r", "i", "z", "e",
    "d">>
TransportErrText == <<"d", "i", "a", "l", " ", "t", "c", "p">>
ReadErrText == <<"E", "O", "F">>

GraphReplies ==
  { GraphReply("transport", <<>>, <<>>),
    GraphReply("status", Status401, <<>>),
    GraphReply("readerr", <<>>, <<>>),
    GraphReply("ok", <<>>, Payload1),
    GraphReply("ok", <<>>, Payload2) }

\* requestGraphAPI's result for a reply: the body, or the first error.
requestGraphAPI(reply) ==
  CASE reply.kind = "transport" ->
         [err |-> TRUE, msg |-> TransportErrText, body |-> <<>>]
    [] reply.kind = "status" ->
         [err |-> TRUE, msg |-> UnexpectedStatusPrefix \o reply.status,
          body |-> <<>>]
    [] reply.kind = "readerr" ->
         [err |-> TRUE, msg |-> ReadErrText, body |-> <<>>]
    [] OTHER -> [err |-> FALSE, msg |-> <<>>, body |-> reply.body]

\* The request requestGraphAPI sends: GET url with the bearer token.
GraphRequest(accessToken, endpoint) ==
  [kind |-> "GET", text |-> GraphBase \o endpoint,
   aux |-> BearerPrefix \o accessToken, num |-> 0]

(* --------------------------- the environment -------------------------- *)

\* What ./config.json may hold: nothing readable, bytes that do not
\* unmarshal into oauthJSONRepr, or a JSON object (all keys optional, a
\* missing one leaves the zero value).
NoFields ==
  [ClientID |-> <<>>, ClientSecret |-> <<>>, RedirectURL |-> <<>>,
   Scopes |-> <<>>, Tenant |-> <<>>]
AllFields ==
  [ClientID |-> <<"c", "o", "r", "a">>,
   ClientSecret |-> <<"s", "3", "c", "r", "e", "t">>,
   RedirectURL |->
     <<"h", "t", "t", "p", ":", "/", "/", "l", "o", "c", "a", "l", "h", "o",
       "s", "t", "/", "c", "b">>,
   Scopes |-> << <<"U", "s", "e", "r", ".", "R", "e", "a", "d">>,
                 <<"o", "p", "e", "n", "i", "d">> >>,
   Tenant |-> <<"c", "o", "n", "t", "o", "s", "o">>]
ConfigFiles ==
  { [readable |-> FALSE, wellFormed |-> FALSE, json |-> NoFields],
    [readable |-> TRUE, wellFormed |-> FALSE, json |-> NoFields],
    [readable |-> TRUE, wellFormed |-> TRUE, json |-> NoFields],
    [readable |-> TRUE, wellFormed |-> TRUE, json |-> AllFields] }

\* microsoft.AzureADEndpoint(tenant): an empty tenant stands for "common".
LoginBase ==
  <<"h", "t", "t", "p", "s", ":", "/", "/", "l", "o", "g", "i", "n", ".", "m",
    "i", "c", "r", "o", "s", "o", "f", "t", "o", "n", "l", "i", "n", "e", ".",
    "c", "o", "m", "/">>
AuthorizePath ==
  <<"/", "o", "a", "u", "t", "h", "2", "/", "v", "2", ".", "0", "/", "a", "u",
    "t", "h", "o", "r", "i", "z", "e">>
TokenPath ==
  <<"/", "o", "a", "u", "t", "h", "2", "/", "v", "2", ".", "0", "/", "t", "o",
    "k", "e", "n">>
CommonTenant == <<"c", "o", "m", "m", "o", "n">>
AzureADEndpoint(tenant) ==
  LET t == IF tenant = <<>> THEN CommonTenant ELSE tenant
  IN  [AuthURL |-> LoginBase \o t \o AuthorizePath,
       TokenURL |-> LoginBase \o t \o TokenPath]

\* The value of the global before init() assigns it.
NilConfig ==
  [isNil |-> TRUE, ClientID |-> <<>>, ClientSecret |-> <<>>,
   RedirectURL |-> <<>>, Scopes |-> <<>>,
   Endpoint |-> [AuthURL |-> <<>>, TokenURL |-> <<>>]]

\* The oauth2.Config init() builds from the unmarshalled file.
ConfigOf(json) ==
  [isNil |-> FALSE, ClientID |-> json.ClientID,
   ClientSecret |-> json.ClientSecret, RedirectURL |-> json.RedirectURL,
   Scopes |-> json.Scopes, Endpoint |-> AzureADEndpoint(json.Tenant)]

\* Authorization codes a client may send (a missing parameter reads as the
\* empty string) and the ones the identity provider redeems.
Codes == { <<>>, <<"g">> }
RedeemableCodes == { <<"g">> }
\* state query parameters a client may send back.
StateParams == { <<>>, <<"s">> }
AccessTokens == { <<"t", "1">> }
ExchangeErrText == <<"o", "a", "u", "t", "h", "2">>

RoomA == <<"R", "o", "o", "m", " ", "A">>
\* A name with characters json.Marshal escapes.
RoomB == <<"R", "&", "\"", "\\", "\t", "0x01">>
Days == { <<>>, <<"M", "o", "n">> }
Classes == { <<>>, <<"1", "0", "A">> }

\* The slot parameters drawn: every string over the slot alphabet up to
\* MaxSlotLen bytes, a lone sign and signed numbers.
SlotAlphabet == {"3", "a"}
SlotStrings ==
  UNION { [1..k -> SlotAlphabet] : k \in 0..MaxSlotLen }
    \cup { <<"-">>, <<"-", "3">>, <<"+", "3">> }

\* What the timetable gateway (package db) may return.
FreeClassResults == { NilSlice, Slice(<<>>), Slice(<<RoomA, RoomB>>) }
FreeSlotResults == { NilSlice, Slice(<<>>), Slice(<<12, 4, -6>>) }
TimetableResults == { NilSlice, Slice(<<>>), Slice(<<RoomB, RoomA>>) }

(* -------------------------------- state ------------------------------- *)

VARIABLES
  phase,        \* where the process is: "init", "parse", "main", "serving", "exited"
  file,         \* the content of ./config.json
  oauthConfig,  \* the global *oauth2.Config
  listening,    \* whether the listening socket is bound
  randSrc,      \* math/rand's global source
  conns,        \* per connection: the request its goroutine is handling
  running,      \* the connection that last seeded or drew from the source
  preempts      \* context switches away from a goroutine with draws left

vars ==
  <<phase, file, oauthConfig, listening, randSrc, conns, running, preempts>>

Conn == DOMAIN conns

Event(kind, text, aux, num) ==
  [kind |-> kind, text |-> text, aux |-> aux, num |-> num]

\* A connection on which no request has arrived yet.
IdleConn ==
  [route |-> "", method |-> "", pc |-> "idle", code |-> <<>>, state |-> <<>>,
   slotStr |-> <<>>, day |-> <<>>, class |-> <<>>, token |-> <<>>,
   profile |-> <<>>, up |-> <<>>, rs |-> <<>>, now |-> 0,
   called |-> FALSE, ret |-> NilSlice, ints |-> NilSlice,
   resp |-> NewResp(""), trace |-> <<>>]

\* A request as the router hands it to the handler of its path.
Request(route) == [IdleConn EXCEPT !.route = route]

\* No handler reads the method of its request.  net/http reads it when the
\* handler first writes to the ResponseWriter (a HEAD response has no
\* body) and http.Redirect reads it, so it is drawn by the step that writes
\* the response.
WithMethod(cn, method) ==
  IF cn.method # "" THEN cn
  ELSE [cn EXCEPT !.method = method, !.resp = NewResp(method)]

\* log.Println in a handler.
Log(trace) == Append(trace, Event("log", <<>>, <<>>, 0))
\* The point at which a handler starts writing its response.
Respond(trace) == Append(trace, Event("respond", <<>>, <<>>, 0))

\* The process as the Go runtime starts it, with the n connections it is
\* going to serve.
Start(n) ==
  /\ phase = "init"
  /\ file \in ConfigFiles
  /\ oauthConfig = NilConfig
  /\ listening = FALSE
  /\ randSrc = Unseeded
  /\ conns = [c \in 1..n |-> IdleConn]
  /\ running = 0
  /\ preempts = 0

Init == Start(NumConns)
InitLogin == Start(NumLogins)

(* ------------------------------- startup ------------------------------ *)

ReadFileFails(f) == ~f.readable
\* A plausible slip: the error of json.Unmarshal is dropped and init() goes
\* on to build the configuration from the zero value.
UnmarshalErrorDropped(f) == FALSE
UnmarshalFails(f) == ~f.wellFormed

\* init(): ioutil.ReadFile, log.Fatal on error.
initReadFile ==
  /\ phase = "init"
  /\ phase' = IF ReadFileFails(file) THEN "exited" ELSE "parse"
  /\ UNCHANGED <<file, oauthConfig, listening, randSrc, conns,
                 running, preempts>>

\* init(): json.Unmarshal, log.Fatal on error, else the global is assigned
\* the configuration built from the fields.
initUnmarshal ==
  /\ phase = "parse"
  /\ IF UnmarshalFails(file)
       THEN /\ phase' = "exited"
            /\ UNCHANGED oauthConfig
       ELSE /\ phase' = "main"
            /\ oauthConfig' = ConfigOf(file.json)
  /\ UNCHANGED <<file, listening, randSrc, conns, running, preempts>>

\* main(): the routes are registered and ListenAndServe binds the port, or
\* fails to and log.Fatal ends the process.
main ==
  /\ phase = "main"
  /\ \E bound \in BOOLEAN :
       /\ listening' = bound
       /\ phase' = IF bound THEN "serving" ELSE "exited"
  /\ UNCHANGED <<file, oauthConfig, randSrc, conns, running, preempts>>

\* The server dispatches a request on connection c only once it listens.
Accepts(c) == listening /\ conns[c].pc = "idle"

(* --------------------------- /oauth/exchange -------------------------- *)

\* The error branch every step of oauthExchangeHandler shares: log, set
\* text/plain, write the status and the error text, return.
exchangeError(cn, method, code, msg) ==
  [WithMethod(cn, method) EXCEPT
             !.pc = "done",
             !.trace = Respond(Log(@)),
             !.resp = Write(WriteHeader(HeaderSet(@, CtPlain), code), msg)]

\* The call requestGraphAPI makes for an endpoint: the handler has sent the
\* GET and waits in client.Do for the answer.
graphCall(cn, endpoint, pc) ==
  [cn EXCEPT !.pc = pc,
             !.trace = Append(@, GraphRequest(cn.token, endpoint))]

\* A plausible slip: a failed code exchange answered like a failed API call.
exchangeReturnedForbidden(cn, method, out) ==
  LET got == [cn EXCEPT !.up = Append(@, out)]
  IN  IF out.kind # "ok" THEN exchangeError(got, method, StatusForbidden, ExchangeErrText)
      ELSE graphCall([got EXCEPT !.token = out.body], EndpointMe, "profile")

\* oauthConfig.Exchange returned: an error answers 400, a token goes on to
\* the profile call.
exchangeReturned(cn, method, out) ==
  LET got == [cn EXCEPT !.up = Append(@, out)]
  IN  IF out.kind # "ok" THEN exchangeError(got, method, StatusBadRequest, ExchangeErrText)
      ELSE graphCall([got EXCEPT !.token = out.body], EndpointMe, "profile")

\* A plausible slip: the return after the profile error is missing, so the
\* handler goes on to the organization call.
profileReturnedNoReturn(cn, method, reply) ==
  LET r == requestGraphAPI(reply)
      got == [cn EXCEPT !.up = Append(@, reply)]
  IN  IF r.err
        THEN graphCall(exchangeError(got, method, StatusForbidden, r.msg),
                       EndpointOrg, "organization")
        ELSE graphCall([got EXCEPT !.profile = r.body], EndpointOrg, "organization")

\* requestGraphAPI(token.AccessToken, "me") returned: an error answers 403,
\* a profile goes on to the organization call.
profileReturned(cn, method, reply) ==
  LET r == requestGraphAPI(reply)
      got == [cn EXCEPT !.up = Append(@, reply)]
  IN  IF r.err THEN exchangeError(got, method, StatusForbidden, r.msg)
      ELSE graphCall([got EXCEPT !.profile = r.body], EndpointOrg, "organization")

\* The success path: application/json, 200, profile, newline, organization.
exchangeSuccess(cn, method, org) ==
  [WithMethod(cn, method) EXCEPT
             !.pc = "done",
             !.trace = Respond(@),
             !.resp = Write(Write(Write(WriteHeader(HeaderSet(@, CtJSON), StatusOK),
                                        cn.profile), Newline), org)]

\* requestGraphAPI(token.AccessToken, "organization") returned.
organizationReturned(cn, method, reply) ==
  LET r == requestGraphAPI(reply)
      got == [cn EXCEPT !.up = Append(@, reply)]
  IN  IF r.err THEN exchangeError(got, method, StatusForbidden, r.msg)
      ELSE exchangeSuccess(got, method, r.body)

\* A request for /oauth/exchange once the handler has read the code and
\* called oauthConfig.Exchange, which has sent the code to the token
\* endpoint and waits for the answer.
exchangeRequest(code, st) ==
  [Request("/oauth/exchange") EXCEPT
     !.pc = "exchange", !.code = code, !.state = st,
     !.trace = Append(@, Event("Exchange", code, <<>>, 0))]

\* oauthExchangeHandler as a function of its request and of the answers it
\* has received so far from the token endpoint and the Graph API.
exchangeRun(method, code, st, up) ==
  LET c0 == exchangeRequest(code, st)
      c1 == IF Len(up) >= 1 THEN exchangeReturned(c0, method, up[1]) ELSE c0
      c2 == IF Len(up) >= 2 THEN profileReturned(c1, method, up[2]) ELSE c1
  IN  IF Len(up) >= 3 THEN organizationReturned(c2, method, up[3]) ELSE c2

\* What the token endpoint may answer for a code: a refusal, a transport
\* failure, or, for a redeemable code, a token.
TokenReplies(code) ==
  { GraphReply("refused", <<>>, <<>>), GraphReply("transport", <<>>, <<>>) }
    \cup (IF code \in RedeemableCodes
            THEN { GraphReply("ok", <<>>, tok) : tok \in AccessTokens }
            ELSE {})

\* oauthExchangeHandler up to the call of oauthConfig.Exchange, in which it
\* waits for the token endpoint.
oauthExchangeHandler(c) ==
  /\ Accepts(c)
  /\ \E code \in Codes, st \in StateParams :
       conns' = [conns EXCEPT ![c] = exchangeRequest(code, st)]
  /\ UNCHANGED <<phase, file, oauthConfig, listening, randSrc, running, preempts>>

\* oauthConfig.Exchange returns; on a token the handler calls
\* requestGraphAPI for "me" and waits for the Graph API.
oauthExchangeToken(c) ==
  /\ conns[c].pc = "exchange"
  /\ \E method \in Methods, out \in TokenReplies(conns[c].code) :
       conns' = [conns EXCEPT ![c] = exchangeReturned(@, method, out)]
  /\ UNCHANGED <<phase, file, oauthConfig, listening, randSrc, running, preempts>>

\* The call for "me" returns; on a profile the handler calls requestGraphAPI
\* for "organization" and waits for the Graph API.
oauthExchangeProfile(c) ==
  /\ conns[c].pc = "profile"
  /\ \E method \in Methods, reply \in GraphReplies :
       conns' = [conns EXCEPT ![c] = profileReturned(@, method, reply)]
  /\ UNCHANGED <<phase, file, oauthConfig, listening, randSrc, running, preempts>>

\* The call for "organization" returns and the handler answers.
oauthExchangeOrganization(c) ==
  /\ conns[c].pc = "organization"
  /\ \E method \in Methods, reply \in GraphReplies :
       conns' = [conns EXCEPT ![c] = organizationReturned(@, method, reply)]
  /\ UNCHANGED <<phase, file, oauthConfig, listening, randSrc, running, preempts>>

(* ------------------------------ /db routes ---------------------------- *)

\* The tail the three /db handlers share: json.Marshal, http.Error with 500
\* on its error, else Content-Type application/json and the bytes.
writeJSON(cn, m) ==
  [cn EXCEPT !.pc = "done",
             !.trace = Respond(@),
             !.resp = IF m.err THEN HttpError(@, m.msg, StatusInternalServerError)
                      ELSE Write(HeaderSet(@, CtJSON), m.bytes)]

\* The branch of freeClassHandler taken when strconv.Atoi fails.
invalidSlot(cn) ==
  [cn EXCEPT !.pc = "done",
             !.trace = Respond(@),
             !.resp = HttpError(@, InvalidSlotMsg, StatusBadRequest)]

\* A call of the timetable gateway: the handler waits for the store behind
\* it to answer.
gatewayCall(cn, call) ==
  [cn EXCEPT !.pc = "gateway", !.called = TRUE, !.trace = Append(@, call)]

\* freeClassHandler for a request with the given slot and day, up to its
\* answer to a slot that does not parse or to its call of db.GetFreeClass.
freeClass(method, slotStr, day) ==
  LET cn == [Request("/db/freeclass") EXCEPT !.slotStr = slotStr, !.day = day]
      a == Atoi(slotStr)
  IN  IF a.err THEN invalidSlot(WithMethod(cn, method))
      ELSE gatewayCall(cn, Event("GetFreeClass", day, <<>>, a.val))

\* db.GetFreeClass returned ret: the rest of freeClassHandler.
freeClassReturned(cn, method, ret) ==
  writeJSON([WithMethod(cn, method) EXCEPT !.ret = ret], MarshalStrings(ret))

\* freeSlotHandler up to its call of db.GetFreeSlot.
freeSlot(class, day) ==
  gatewayCall([Request("/db/freeslot") EXCEPT !.class = class, !.day = day],
              Event("GetFreeSlot", class, day, 0))

\* db.GetFreeSlot returned ret: the rest of freeSlotHandler.
freeSlotReturned(cn, method, ret) ==
  writeJSON([WithMethod(cn, method) EXCEPT !.ints = ret], MarshalInts(ret))

\* dayTimetableHandler up to its call of db.GetTimetableByDay.
dayTimetable(class, day) ==
  gatewayCall([Request("/db/daytimetable") EXCEPT !.class = class, !.day = day],
              Event("GetTimetableByDay", class, day, 0))

\* db.GetTimetableByDay returned ret: the rest of dayTimetableHandler.
dayTimetableReturned(cn, method, ret) ==
  writeJSON([WithMethod(cn, method) EXCEPT !.ret = ret], MarshalStrings(ret))

\* freeClassHandler up to the call of the gateway, which is made only for
\* a slot that parses.
freeClassHandler(c) ==
  /\ Accepts(c)
  /\ \E method \in Methods, slotStr \in SlotStrings, day \in Days :
       conns' = [conns EXCEPT ![c] = freeClass(method, slotStr, day)]
  /\ UNCHANGED <<phase, file, oauthConfig, listening, randSrc, running, preempts>>

\* db.GetFreeClass returns and freeClassHandler answers.
freeClassReturn(c) ==
  /\ conns[c].pc = "gateway"
  /\ conns[c].route = "/db/freeclass"
  /\ \E method \in Methods, ret \in FreeClassResults :
       conns' = [conns EXCEPT ![c] = freeClassReturned(@, method, ret)]
  /\ UNCHANGED <<phase, file, oauthConfig, listening, randSrc, running, preempts>>

\* freeSlotHandler up to the call of the gateway.
freeSlotHandler(c) ==
  /\ Accepts(c)
  /\ \E class \in Classes, day \in Days :
       conns' = [conns EXCEPT ![c] = freeSlot(class, day)]
  /\ UNCHANGED <<phase, file, oauthConfig, listening, randSrc, running, preempts>>

\* db.GetFreeSlot returns and freeSlotHandler answers.
freeSlotReturn(c) ==
  /\ conns[c].pc = "gateway"
  /\ conns[c].route = "/db/freeslot"
  /\ \E method \in Methods, ret \in FreeSlotResults :
       conns' = [conns EXCEPT ![c] = freeSlotReturned(@, method, ret)]
  /\ UNCHANGED <<phase, file, oauthConfig, listening, randSrc, running, preempts>>

\* dayTimetableHandler up to the call of the gateway.
dayTimetableHandler(c) ==
  /\ Accepts(c)
  /\ \E class \in Classes, day \in Days :
       conns' = [conns EXCEPT ![c] = dayTimetable(class, day)]
  /\ UNCHANGED <<phase, file, oauthConfig, listening, randSrc, running, preempts>>

\* db.GetTimetableByDay returns and dayTimetableHandler answers.
dayTimetableReturn(c) ==
  /\ conns[c].pc = "gateway"
  /\ conns[c].route = "/db/daytimetable"
  /\ \E method \in Methods, ret \in TimetableResults :
       conns' = [conns EXCEPT ![c] = dayTimetableReturned(@, method, ret)]
  /\ UNCHANGED <<phase, file, oauthConfig, listening, randSrc, running, preempts>>

(* ----------------------------- /oauth/login --------------------------- *)

\* The parameters oauthLoginHandler passes with every authorization URL
\* (AccessTypeOnline, prompt=select_account) and the one AuthCodeURL adds
\* (response_type=code), as url.Values.Encode writes them.
AccessTypeOnline ==
  EncodePair(<<"a", "c", "c", "e", "s", "s", "_", "t", "y", "p", "e">>,
             <<"o", "n", "l", "i", "n", "e">>)
PromptSelectAccount ==
  EncodePair(<<"p", "r", "o", "m", "p", "t">>,
             <<"s", "e", "l", "e", "c", "t", "_", "a", "c", "c", "o", "u", "n",
               "t">>)
ResponseTypeCode ==
  EncodePair(<<"r", "e", "s", "p", "o", "n", "s", "e", "_", "t", "y", "p", "e">>,
             <<"c", "o", "d", "e">>)
ClientIDKey == <<"c", "l", "i", "e", "n", "t", "_", "i", "d">>
RedirectURIKey == <<"r", "e", "d", "i", "r", "e", "c", "t", "_", "u", "r", "i">>
ScopeKey == <<"s", "c", "o", "p", "e">>
StateKey == <<"s", "t", "a", "t", "e">>

\* oauth2.Config.AuthCodeURL(state, AccessTypeOnline, prompt=select_account):
\* the authorization endpoint, then ? (or & if the endpoint holds a ?), then
\* the parameters as url.Values.Encode writes them: key=value pairs, escaped,
\* in the order of their keys, joined by &.  redirect_uri, scope and state
\* are left out when empty.
AuthCodeURL(cfg, state) ==
  LET v == <<AccessTypeOnline, EncodePair(ClientIDKey, cfg.ClientID),
             PromptSelectAccount>>
             \o (IF cfg.RedirectURL = <<>> THEN <<>>
                 ELSE <<EncodePair(RedirectURIKey, cfg.RedirectURL)>>)
             \o <<ResponseTypeCode>>
             \o (IF cfg.Scopes = <<>> THEN <<>>
                 ELSE <<EncodePair(ScopeKey, Join(cfg.Scopes, <<" ">>))>>)
             \o (IF state = <<>> THEN <<>> ELSE <<EncodePair(StateKey, state)>>)
      url == cfg.Endpoint.AuthURL
  IN  url \o (IF \E i \in 1..Len(url) : url[i] = "?" THEN <<"&">> ELSE <<"?">>)
          \o Join(v, <<"&">>)

\* charset[rand.Intn(len(charset))] on source src: the character of charset
\* at the position drawn, named by the draw.
nextChar(src) == "charset[" \o Intn(src, Len(charset)) \o "]"

\* The loop of generateRandomString run without interruption on source
\* src: the string and the state the source is left in.
RECURSIVE randomLoop(_, _, _)
randomLoop(src, str, length) ==
  IF Len(str) >= length THEN [str |-> str, src |-> src]
  ELSE randomLoop(Advance(src), Append(str, nextChar(src)), length)

\* generateRandomString(length) run without interruption, the clock reading
\* now.
generateRandomString(now, length) == randomLoop(Seed(now), <<>>, length)

\* Whether an access to the global source by connection c is a context
\* switch: the last access was made by another goroutine, which has draws
\* left to make.
Switches(c) ==
  /\ running # 0 /\ running # c
  /\ conns[running].pc = "gen" /\ Len(conns[running].rs) < StateLen
MayRun(c) == ~Switches(c) \/ preempts < MaxPreempt

\* oauthLoginHandler calls generateRandomString(16), which reads the wall
\* clock: time.Now().UnixNano().  The clock may stand still between two
\* readings and may be set back: a reading is any value drawn.
oauthLoginHandler(c) ==
  /\ Accepts(c)
  /\ \E now \in 0..MaxClock :
       conns' = [conns EXCEPT ![c] =
                   [Request("/oauth/login") EXCEPT !.pc = "seed", !.now = now]]
  /\ UNCHANGED <<phase, file, oauthConfig, listening, randSrc, running, preempts>>

\* generateRandomString: rand.Seed of the clock reading.
generateRandomStringSeed(c) ==
  /\ conns[c].pc = "seed"
  /\ MayRun(c)
  /\ randSrc' = Seed(conns[c].now)
  /\ conns' = [conns EXCEPT ![c].pc = "gen"]
  /\ preempts' = IF Switches(c) THEN preempts + 1 ELSE preempts
  /\ running' = c
  /\ UNCHANGED <<phase, file, oauthConfig, listening>>

\* One turn of the loop of generateRandomString.
generateRandomStringStep(c) ==
  /\ conns[c].pc = "gen"
  /\ Len(conns[c].rs) < StateLen
  /\ MayRun(c)
  /\ randSrc' = Advance(randSrc)
  /\ conns' = [conns EXCEPT ![c].rs = Append(@, nextChar(randSrc))]
  /\ preempts' = IF Switches(c) THEN preempts + 1 ELSE preempts
  /\ running' = c
  /\ UNCHANGED <<phase, file, oauthConfig, listening>>

\* The response of oauthLoginHandler: a 302 to the authorization URL.
loginRedirect(cn, method, authURL) ==
  [WithMethod(cn, method) EXCEPT
             !.pc = "done",
             !.trace = Respond(@),
             !.resp = HttpRedirect(@, authURL, StatusFound)]

\* generateRandomString returns and oauthLoginHandler redirects.
oauthLoginRedirect(c) ==
  /\ conns[c].pc = "gen"
  /\ Len(conns[c].rs) = StateLen
  /\ LET authURL == AuthCodeURL(oauthConfig, conns[c].rs)
     IN  \E method \in Methods :
           conns' = [conns EXCEPT ![c] = loginRedirect(@, method, authURL)]
  /\ UNCHANGED <<phase, file, oauthConfig, listening, randSrc, running,
                 preempts>>

(* --------------------------- the specification ------------------------ *)

Next ==
  \/ initReadFile
  \/ initUnmarshal
  \/ main
  \/ \E c \in 1..NumConns :
       \/ freeClassHandler(c)
       \/ freeClassReturn(c)
       \/ freeSlotHandler(c)
       \/ freeSlotReturn(c)
       \/ dayTimetableHandler(c)
       \/ dayTimetableReturn(c)
       \/ oauthLoginHandler(c)
       \/ generateRandomStringSeed(c)
       \/ generateRandomStringStep(c)
       \/ oauthLoginRedirect(c)
       \/ oauthExchangeHandler(c)
       \/ oauthExchangeToken(c)
       \/ oauthExchangeProfile(c)
       \/ oauthExchangeOrganization(c)

Spec == Init /\ [][Next]_vars

\* The server with only /oauth/login requested.
NextLogin ==
  \/ initReadFile
  \/ initUnmarshal
  \/ main
  \/ \E c \in 1..NumLogins :
       \/ oauthLoginHandler(c)
       \/ generateRandomStringSeed(c)
       \/ generateRandomStringStep(c)
       \/ oauthLoginRedirect(c)

SpecLogin == InitLogin /\ [][NextLogin]_vars

(* ============================== the claims ============================ *)

Finished(cn, route) == cn.route = route /\ cn.pc = "done"
Failed(reply) == reply.kind # "ok"

\* The outbound calls of a request, in the order they were made.
Outbound(trace) == SelectSeq(trace, LAMBDA e : e.kind \in {"Exchange", "GET"})
CountKind(trace, kind) == Len(SelectSeq(trace, LAMBDA e : e.kind = kind))

\* C1: the status of an /oauth/exchange response is decided by the first
\* failing step: 400 if the code exchange fails, 403 if the exchange succeeds
\* and the profile or the organization call fails, and 200 only if all
\* three succeed, the body then being profile, newline, organization
\* (net/http sends the header alone in answer to a HEAD request).
C1_StatusByFirstFailure ==
  \A c \in Conn :
    LET cn == conns[c]
        up == cn.up
    IN  Finished(cn, "/oauth/exchange") =>
          /\ Len(up) >= 1
          /\ Failed(up[1]) =>
               cn.resp.status = StatusBadRequest
          /\ (~Failed(up[1]) /\ Failed(up[Len(up)])) =>
               cn.resp.status = StatusForbidden
          /\ (\A i \in 1..Len(up) : ~Failed(up[i])) =>
               /\ Len(up) = 3
               /\ cn.resp.status = StatusOK
               /\ cn.resp.body = IF cn.method = "HEAD" THEN <<>>
                                 ELSE up[2].body \o Newline \o up[3].body
          /\ cn.resp.status = StatusOK =>
               (Len(up) = 3 /\ \A i \in 1..3 : ~Failed(up[i]))

C1_Witness ==
  \E c \in Conn :
    /\ Finished(conns[c], "/oauth/exchange")
    /\ conns[c].method = "GET"
    /\ conns[c].resp.status = StatusOK
    /\ conns[c].up[2].body # conns[c].up[3].body

\* C9: within one /oauth/exchange request the outbound calls are the token
\* exchange, the profile GET and the organization GET, in that order and
\* each at most once; a call is made only after the one before it
\* succeeded, none is made after a failure, and exactly one response is
\* written, at the end.  While the handler runs it waits for the answer to
\* the last call it made, every call before having been answered with
\* success, and has written nothing.
C9_SequentialCallsNoRetry ==
  \A c \in Conn :
    LET cn == conns[c]
        out == Outbound(cn.trace)
        all == <<Event("Exchange", cn.code, <<>>, 0),
                 GraphRequest(cn.token, EndpointMe),
                 GraphRequest(cn.token, EndpointOrg)>>
    IN  cn.route = "/oauth/exchange" =>
          /\ Len(out) \in 1..3
          /\ out = SubSeq(all, 1, Len(out))
          /\ Len(cn.up) \in {Len(out) - 1, Len(out)}
          /\ \A i \in 1..(Len(out) - 1) : ~Failed(cn.up[i])
          /\ cn.pc # "done" =>
               /\ Len(cn.up) = Len(out) - 1
               /\ cn.resp = NewResp(cn.method)
               /\ CountKind(cn.trace, "respond") = 0
          /\ cn.pc = "done" =>
               /\ Len(cn.up) = Len(out)
               /\ cn.resp.hdrCalls = 1
               /\ CountKind(cn.trace, "respond") = 1
               /\ cn.trace[Len(cn.trace)].kind = "respond"
               /\ (Len(out) < 3 => Failed(cn.up[Len(out)]))

C9_Witness ==
  \E c \in Conn :
    /\ Finished(conns[c], "/oauth/exchange")
    /\ Len(Outbound(conns[c].trace)) = 2
    /\ conns[c].resp.status = StatusForbidden

HasPrefix(s, prefix) ==
  Len(s) >= Len(prefix) /\ SubSeq(s, 1, Len(prefix)) = prefix

\* C4: startup is fail-fast.  If reading or parsing the configuration file
\* fails, the process ends without ever binding the socket or dispatching a
\* request; whenever the socket is bound or a handler has run, the global
\* configuration is non-nil and was built from a file that was read and
\* parsed.
C4_FailFastStartup ==
  /\ (~file.readable \/ ~file.wellFormed) =>
       /\ ~listening
       /\ phase \in {"init", "parse", "exited"}
       /\ oauthConfig.isNil
       /\ \A c \in Conn : conns[c] = IdleConn
  /\ (listening \/ \E c \in Conn : conns[c] # IdleConn) =>
       /\ file.readable /\ file.wellFormed
       /\ ~oauthConfig.isNil
       /\ oauthConfig.ClientID = file.json.ClientID
       /\ oauthConfig.ClientSecret = file.json.ClientSecret
       /\ oauthConfig.Scopes = file.json.Scopes
       /\ oauthConfig.RedirectURL = file.json.RedirectURL
       /\ oauthConfig.Endpoint.AuthURL =
            LoginBase
              \o (IF file.json.Tenant = <<>> THEN CommonTenant
                  ELSE file.json.Tenant)
              \o AuthorizePath

\* A login served from a configuration file that names no tenant: the
\* redirect goes to the authorization endpoint of the tenant "common".
C4_Witness ==
  /\ listening
  /\ file.json.Tenant = <<>>
  /\ \E c \in Conn :
       /\ Finished(conns[c], "/oauth/login")
       /\ HasPrefix(conns[c].resp.location,
                    LoginBase \o CommonTenant \o AuthorizePath \o <<"?">>)

\* Text that denotes an integer: an optional sign, then decimal digits.
IsIntegerText(s) ==
  LET d == IF s # <<>> /\ s[1] \in {"+", "-"} THEN Tail(s) ELSE s
  IN  d # <<>> /\ \A i \in 1..Len(d) : d[i] \in Digits

GatewayCalls(cn) ==
  SelectSeq(cn.trace,
            LAMBDA e : e.kind \in {"GetFreeClass", "GetFreeSlot", "GetTimetableByDay"})

\* C2 as stated: for every non-integer slot (a missing or empty one
\* included) GET /db/freeclass answers 400 with the body "Invalid slot
\* value", and GetFreeClass is not called.
C2_AsStated ==
  \A c \in Conn :
    LET cn == conns[c]
    IN  (Finished(cn, "/db/freeclass") /\ cn.method = "GET"
           /\ ~IsIntegerText(cn.slotStr)) =>
          /\ cn.resp.status = StatusBadRequest
          /\ cn.resp.body = InvalidSlotMsg
          /\ ~cn.called /\ GatewayCalls(cn) = <<>>

\* C2, amended: for every non-integer slot (a missing or empty one
\* included) /db/freeclass answers 400 with the body "Invalid slot value"
\* followed by a newline (the header alone to a HEAD request), and
\* GetFreeClass is not called.
C2_InvalidSlotRejected ==
  \A c \in Conn :
    LET cn == conns[c]
    IN  (Finished(cn, "/db/freeclass") /\ ~IsIntegerText(cn.slotStr)) =>
          /\ cn.resp.status = StatusBadRequest
          /\ cn.resp.body = IF cn.method = "HEAD" THEN <<>>
                            ELSE InvalidSlotMsg \o Newline
          /\ ~cn.called /\ GatewayCalls(cn) = <<>>

C2_Witness ==
  \E c \in Conn :
    /\ Finished(conns[c], "/db/freeclass")
    /\ conns[c].method = "GET"
    /\ conns[c].slotStr = <<"3", "a">>
    /\ conns[c].resp.status = StatusBadRequest

ErrorStatuses == {StatusBadRequest, StatusForbidden, StatusInternalServerError}

\* C3 as stated: every response of the five handlers to a GET carries
\* Content-Type application/json, except the two OAuth error paths, which
\* carry text/plain; charset=utf-8.
C3_AsStated ==
  \A c \in Conn :
    LET cn == conns[c]
    IN  (cn.pc = "done" /\ cn.method = "GET") =>
          IF cn.route = "/oauth/exchange" /\ cn.resp.status \in ErrorStatuses
            THEN ContentType(cn.resp) = CtPlain
            ELSE ContentType(cn.resp) = CtJSON

\* C3, amended: every 200 response carries application/json; every error
\* response (400, 403, 500), that of /db/freeclass for a bad slot included,
\* carries text/plain; charset=utf-8; the 302 of /oauth/login carries
\* text/html; charset=utf-8 if the request is a GET or a HEAD, and no
\* Content-Type otherwise.
C3_ContentTypeByStatus ==
  \A c \in Conn :
    LET cn == conns[c]
    IN  cn.pc = "done" =>
          /\ cn.resp.status \in {StatusOK, StatusFound} \cup ErrorStatuses
          /\ cn.resp.status = StatusOK => ContentType(cn.resp) = CtJSON
          /\ cn.resp.status \in ErrorStatuses => ContentType(cn.resp) = CtPlain
          /\ cn.resp.status = StatusFound =>
               ContentType(cn.resp) =
                 IF cn.method \in {"GET", "HEAD"} THEN CtHTML ELSE ""
          /\ cn.route = "/oauth/login" <=> cn.resp.status = StatusFound

C3_Witness ==
  \E c \in Conn :
    /\ Finished(conns[c], "/db/freeclass")
    /\ conns[c].method = "GET"
    /\ conns[c].resp.status = StatusBadRequest
    /\ ContentType(conns[c].resp) = CtPlain

\* What a client that decodes a body as a JSON array of strings obtains.
BadJSON == [ok |-> FALSE, elems |-> <<>>]
\* The character a \uXXXX escape stands for.
Unescape(hex) ==
  CASE hex = <<"0", "0", "2", "6">> -> "&"
    [] hex = <<"0", "0", "3", "c">> -> "<"
    [] hex = <<"0", "0", "3", "e">> -> ">"
    [] hex = <<"2", "0", "2", "8">> -> "U+2028"
    [] hex = <<"2", "0", "2", "9">> -> "U+2029"
    [] hex = <<"f", "f", "f", "d">> -> "U+FFFD"
    [] \E ch \in DOMAIN ControlHex : <<"0", "0">> \o ControlHex[ch] = hex ->
         CHOOSE ch \in DOMAIN ControlHex : <<"0", "0">> \o ControlHex[ch] = hex
    [] OTHER -> "?"
\* The character a two-byte escape stands for.
ShortEscape(ch) ==
  CASE ch = "n" -> "\n" [] ch = "r" -> "\r" [] ch = "t" -> "\t" [] OTHER -> ch

RECURSIVE decodeElems(_, _, _, _)
decodeElems(s, mode, cur, acc) ==
  IF s = <<>> THEN [ok |-> mode = "after", elems |-> acc]
  ELSE
    LET ch == Head(s)
        rest == Tail(s)
    IN  CASE mode = "open" ->
               IF ch = "\"" THEN decodeElems(rest, "in", <<>>, acc) ELSE BadJSON
          [] mode = "in" ->
               IF ch = "\"" THEN decodeElems(rest, "after", <<>>, Append(acc, cur))
               ELSE IF ch \in {"\n", "\r", "\t"} \cup DOMAIN ControlHex
                 THEN BadJSON
               ELSE IF ch # "\\" THEN decodeElems(rest, "in", Append(cur, ch), acc)
               ELSE IF rest = <<>> THEN BadJSON
               ELSE IF Head(rest) \in {"\"", "\\", "n", "r", "t"}
                 THEN decodeElems(Tail(rest), "in",
                                  Append(cur, ShortEscape(Head(rest))), acc)
               ELSE IF Head(rest) = "u" /\ Len(rest) >= 5
                 THEN decodeElems(SubSeq(rest, 6, Len(rest)), "in",
                                  Append(cur, Unescape(SubSeq(rest, 2, 5))), acc)
               ELSE BadJSON
          [] OTHER ->
               IF ch = "," THEN decodeElems(rest, "open", <<>>, acc) ELSE BadJSON

DecodeStringArray(b) ==
  IF Len(b) < 2 \/ b[1] # "[" \/ b[Len(b)] # "]" THEN BadJSON
  ELSE IF Len(b) = 2 THEN [ok |-> TRUE, elems |-> <<>>]
  ELSE decodeElems(SubSeq(b, 2, Len(b) - 1), "open", <<>>, <<>>)

\* C5 as stated: for every integer slot and any day, GET /db/freeclass
\* answers with a JSON array (an empty one when the gateway returns no classrooms
\* or an absent list) whose elements are the list GetFreeClass(slot, day)
\* returned, in the same order, and never with a 400 or a 500.
C5_AsStated ==
  \A c \in Conn :
    LET cn == conns[c]
    IN  (Finished(cn, "/db/freeclass") /\ cn.method = "GET"
           /\ IsIntegerText(cn.slotStr)) =>
          /\ cn.resp.status = StatusOK
          /\ Len(GatewayCalls(cn)) = 1
          /\ GatewayCalls(cn)[1].text = cn.day
          /\ DecodeStringArray(cn.resp.body).ok
          /\ DecodeStringArray(cn.resp.body).elems = cn.ret.elems

\* The part of C5 the code keeps: a list that is not nil comes back as the
\* JSON array of its elements, in order.
C5_NonNilListRoundTrips ==
  \A c \in Conn :
    LET cn == conns[c]
    IN  (Finished(cn, "/db/freeclass") /\ cn.method = "GET"
           /\ IsIntegerText(cn.slotStr) /\ ~cn.ret.isNil) =>
          /\ cn.resp.status = StatusOK
          /\ DecodeStringArray(cn.resp.body) = [ok |-> TRUE, elems |-> cn.ret.elems]

\* C7 as stated: on every error path of every handler (400, 403, 500) a
\* log entry is emitted before the error response is written.
C7_AsStated ==
  \A c \in Conn :
    LET cn == conns[c]
    IN  (cn.pc = "done" /\ cn.resp.status \in ErrorStatuses) =>
          \E i \in 1..Len(cn.trace) :
            /\ cn.trace[i].kind = "log"
            /\ \A j \in 1..i : cn.trace[j].kind # "respond"

\* The part of C7 the code keeps: the error paths of /oauth/exchange log
\* before they write.
C7_ExchangeErrorsLogged ==
  \A c \in Conn :
    LET cn == conns[c]
    IN  (Finished(cn, "/oauth/exchange") /\ cn.resp.status \in ErrorStatuses) =>
          \E i \in 1..(Len(cn.trace) - 1) :
            cn.trace[i].kind = "log" /\ cn.trace[i + 1].kind = "respond"

\* The first position of ch in s, 0 if there is none.
IndexOf(s, ch) ==
  IF \E i \in 1..Len(s) : s[i] = ch
    THEN CHOOSE i \in 1..Len(s) : s[i] = ch /\ \A j \in 1..(i - 1) : s[j] # ch
    ELSE 0

RECURSIVE Split(_, _)
Split(s, sep) ==
  LET i == IndexOf(s, sep)
  IN  IF i = 0 THEN <<s>>
      ELSE <<SubSeq(s, 1, i - 1)>> \o Split(SubSeq(s, i + 1, Len(s)), sep)

\* The byte two hex digits stand for.
ByteOfHex(pair) ==
  IF \E ch \in DOMAIN HexTable : HexTable[ch] = <<pair>>
    THEN CHOOSE ch \in DOMAIN HexTable : HexTable[ch] = <<pair>>
    ELSE "?"

\* What the receiver of a URL reads from an escaped query value.
RECURSIVE QueryUnescape(_)
QueryUnescape(s) ==
  IF s = <<>> THEN <<>>
  ELSE IF Head(s) = "+" THEN <<" ">> \o QueryUnescape(Tail(s))
  ELSE IF Head(s) = "%" /\ Len(s) >= 3
    THEN <<ByteOfHex(<<s[2], s[3]>>)>> \o QueryUnescape(SubSeq(s, 4, Len(s)))
  ELSE <<Head(s)>> \o QueryUnescape(Tail(s))

\* The value of the query parameter key of a URL.
QueryParam(url, key) ==
  LET q == IndexOf(url, "?")
      pairs == IF q = 0 THEN <<>> ELSE Split(SubSeq(url, q + 1, Len(url)), "&")
      hits == SelectSeq(pairs,
                        LAMBDA kv : Len(kv) > Len(key)
                                      /\ SubSeq(kv, 1, Len(key) + 1) = key \o <<"=">>)
  IN  IF hits = <<>> THEN [found |-> FALSE, value |-> <<>>]
      ELSE [found |-> TRUE,
            value |-> QueryUnescape(SubSeq(hits[1], Len(key) + 2, Len(hits[1])))]

\* The state token a finished login request was redirected with.
IssuedState(cn) == QueryParam(cn.resp.location, StateKey)

\* The characters rand.Intn can select from charset: every draw the source
\* can be asked for while the connections are served.
DrawnChars ==
  { nextChar([seeded |-> TRUE, seed |-> SeedWord(t), n |-> k]) :
      t \in 0..MaxClock, k \in 0..(StateLen * Len(conns)) }

\* C6 as stated: /oauth/login always answers 302 with a Location whose
\* state parameter is 16 characters of [A-Za-z0-9], and the state tokens of
\* any two login requests are distinct.
C6_AsStated ==
  /\ \A c \in Conn :
       LET cn == conns[c]
       IN  Finished(cn, "/oauth/login") =>
             /\ cn.resp.status = StatusFound
             /\ IssuedState(cn).found
             /\ Len(IssuedState(cn).value) = 16
             /\ \A i \in 1..16 : IssuedState(cn).value[i] \in DrawnChars
  /\ \A c, d \in Conn :
       (c # d /\ Finished(conns[c], "/oauth/login")
          /\ Finished(conns[d], "/oauth/login")) =>
         IssuedState(conns[c]).value # IssuedState(conns[d]).value

\* The part of C6 the code keeps: the 302 and the shape of the token.
C6_TokenShape ==
  \A c \in Conn :
    LET cn == conns[c]
    IN  Finished(cn, "/oauth/login") =>
          /\ cn.resp.status = StatusFound
          /\ IssuedState(cn) = [found |-> TRUE, value |-> cn.rs]
          /\ Len(cn.rs) = 16
          /\ \A i \in 1..16 : cn.rs[i] \in DrawnChars

\* C8 as stated: handlers share no mutable state.  No handler writes the
\* OAuth configuration, and no step of one request changes what another
\* request in flight computes: the token a login request builds is the one
\* its own call of generateRandomString determines.
C8_AsStated ==
  /\ listening => oauthConfig = ConfigOf(file.json)
  /\ \A c \in Conn :
       LET cn == conns[c]
           own == generateRandomString(cn.now, StateLen).str
       IN  cn.route = "/oauth/login" => cn.rs = SubSeq(own, 1, Len(cn.rs))

\* The part of C8 the code keeps: the configuration is never written after
\* startup.
C8_ConfigNeverWritten ==
  [][~oauthConfig.isNil => oauthConfig' = oauthConfig]_vars

\* A step of the handler of /oauth/login on connection c.
LoginStep(c) == conns'[c] # conns[c] /\ conns'[c].route = "/oauth/login"

\* The response of an /oauth/exchange request is the same whatever state
\* parameter the request carries: it is a function of the method, of the
\* code and of the upstream answers alone.
StateParamIgnored ==
  \A c \in Conn :
    LET cn == conns[c]
    IN  cn.route = "/oauth/exchange" =>
          \A st \in StateParams :
            LET other == exchangeRun(cn.method, cn.code, st, cn.up)
            IN  other.resp = cn.resp /\ other.pc = cn.pc

\* C10 as stated: /oauth/login leaves all process state unchanged, and the
\* response of /oauth/exchange does not depend on the state parameter.
C10_AsStated ==
  /\ [][\A c \in Conn :
          LoginStep(c) =>
            /\ UNCHANGED <<phase, file, oauthConfig, listening, randSrc>>
            /\ \A d \in Conn \ {c} : conns'[d] = conns[d]]_vars
  /\ []StateParamIgnored

\* The part of C10 the code keeps: a step of /oauth/login changes neither
\* the configuration nor the request of another connection, a finished
\* request is not touched again, and the response of /oauth/exchange does
\* not depend on the state parameter.
C10_ExchangeIgnoresState ==
  /\ [][\A c \in Conn :
          LoginStep(c) =>
            /\ UNCHANGED <<phase, file, oauthConfig, listening>>
            /\ \A d \in Conn \ {c} : conns'[d] = conns[d]]_vars
  /\ [][\A c \in Conn : conns[c].pc = "done" => conns'[c] = conns[c]]_vars
  /\ []StateParamIgnored

====
